---- MODULE Spec2Model ----
(***************************************************************************)
(* Model of the RPC dispatch core of rpc-agent (src/services/rpc.service): *)
(* RPCService.handleRequest, the TCP and UDP listeners that call it, and   *)
(* the initialize / shutdown lifecycle.                                    *)
(*                                                                         *)
(* JavaScript runs every callback to completion, so one action is one      *)
(* synchronous run of a callback: from the event that starts it to the     *)
(* next `await` (or to its return).  A continuation after an `await` is a  *)
(* microtask: it runs before any further I/O or timer callback.            *)
(***************************************************************************)
EXTENDS Integers, Sequences, FiniteSets, TLC

(***************************************************************************)
(* Bounds of the model.                                                    *)
(***************************************************************************)
MaxCalls == 2
MaxChunks == 3
MaxStreamLen == 4
MaxDatagrams == 2
MaxOpenConns == 3
MaxInitCalls == 2
MaxRegisterCalls == 2
MaxBaseDirs == 2
MaxUserDirs == 1
MaxListCalls == 2
MaxNow == 3
MaxSends == 3
MaxSockets == 4

(***************************************************************************)
(* ErrorCode enum.                                                         *)
(***************************************************************************)
PARSE_ERROR == -32700
INVALID_REQUEST == -32600
METHOD_NOT_FOUND == -32601
INVALID_PARAMS == -32602
INTERNAL_ERROR == -32603
SERVER_ERROR == -32000
EXTENSION_NOT_FOUND == -32001
TIMEOUT == 408

(***************************************************************************)
(* JavaScript values.  An id keeps its type next to its value, so that a   *)
(* string id and a number id with the same digits stay different.          *)
(***************************************************************************)
Undef == [t |-> "undef", v |-> 0]
IdNull == [t |-> "null", v |-> 0]
IdStr(n) == [t |-> "str", v |-> n]
IdNum(n) == [t |-> "num", v |-> n]

\* a ?? null
Coalesce(a) == IF a = Undef THEN IdNull ELSE a

\* The `method` member of a decoded value: absent, a non-string, or a string.
\* A string is the sequence of its pieces, "." being the separator character.
MAbsent == [t |-> "undef", s |-> <<>>]
MNumber == [t |-> "num", s |-> <<>>]
MStr(s) == [t |-> "str", s |-> s]

\* The `params` member of a decoded value: absent, or an object of which the
\* model keeps the members `port` (a JavaScript value: Undef when absent, a
\* string or an integer number) and `extension` (absent, or one object).
NoParams == [t |-> "undef", port |-> Undef, extension |-> <<>>]
PortParams(port) == [t |-> "object", port |-> port, extension |-> <<>>]
RegisterParams(extension) == [t |-> "object", port |-> Undef, extension |-> <<extension>>]

\* Values JSON.parse can return.  A primitive or an array destructures like
\* an object without members; null cannot be destructured.
JsonNull ==
  [json |-> "null", jsonrpc |-> "absent", method |-> MAbsent, id |-> Undef, params |-> NoParams]
JsonNumber ==
  [json |-> "number", jsonrpc |-> "absent", method |-> MAbsent, id |-> Undef, params |-> NoParams]
ReqP(ver, m, id, params) ==
  [json |-> "object", jsonrpc |-> ver, method |-> m, id |-> id, params |-> params]
Req(ver, m, id) == ReqP(ver, m, id, NoParams)

(***************************************************************************)
(* String.prototype.split(".")                                             *)
(***************************************************************************)
RECURSIVE SplitFrom(_, _)
SplitFrom(s, cur) ==
  IF s = <<>> THEN <<cur>>
  ELSE IF Head(s) = "." THEN <<cur>> \o SplitFrom(Tail(s), <<>>)
  ELSE SplitFrom(Tail(s), Append(cur, Head(s)))

split(s) == SplitFrom(s, <<>>)

(***************************************************************************)
(* The registry after loadExtensions: Map<string, Extension>.  `methods`   *)
(* is a plain object, so a lookup also finds Object.prototype members.     *)
(***************************************************************************)
ObjectPrototypeKeys == {<<"toString">>}

LoadedOrder == <<<<"echo">>, <<"extensions">>, <<"network">>>>

LoadedExtensions ==
  [n \in {<<"echo">>, <<"network">>, <<"extensions">>} |->
     [name |-> n,
      methods |-> CASE n = <<"echo">> -> {<<"echo">>, <<"ping">>}
                    [] n = <<"network">> -> {<<"validatePort">>}
                    [] n = <<"extensions">> -> {<<"list">>, <<"status">>, <<"register">>}]]

\* extension.methods[methodName]
MethodLookup(extension, methodName) ==
  IF methodName \in extension.methods THEN "own"
  ELSE IF methodName \in ObjectPrototypeKeys THEN "inherited"
  ELSE "undefined"

(***************************************************************************)
(* RpcError and the ErrorService factories.  The factories pass no         *)
(* requestId to createError, so the error's requestId is undefined.        *)
(***************************************************************************)
RpcError(code, requestId) == [rpc |-> TRUE, code |-> code, requestId |-> requestId]
PlainError == [rpc |-> FALSE, code |-> 0, requestId |-> Undef]

invalidRequest == RpcError(INVALID_REQUEST, Undef)
\* An unknown extension reported as an internal error.
extensionNotFoundInternal == RpcError(INTERNAL_ERROR, Undef)
extensionNotFound == RpcError(EXTENSION_NOT_FOUND, Undef)
methodNotFound == RpcError(METHOD_NOT_FOUND, Undef)
\* An internal error built with the generic server error code.
internalErrorServerError == RpcError(SERVER_ERROR, Undef)
internalError == RpcError(INTERNAL_ERROR, Undef)
\* The timeout error with the code its doc comment gives.
requestTimeoutServerError == RpcError(SERVER_ERROR, Undef)
requestTimeout == RpcError(TIMEOUT, Undef)

\* Errors an extension method can fail with: a taxonomy error or any Error.
HandlerErrors == {RpcError(INVALID_PARAMS, Undef), PlainError}
\* Values an extension method can return.
HandlerResults == {"value", "undefined"}

(***************************************************************************)
(* Response envelopes.                                                     *)
(***************************************************************************)
ResultEnvelope(id, result) ==
  [id |-> id, kind |-> "result", result |-> result, code |-> 0, requestId |-> Undef]
ErrorEnvelope(id, error) ==
  [id |-> id, kind |-> "error", result |-> "none", code |-> error.code,
   requestId |-> error.requestId]

\* RPCService.createErrorResponse
createErrorResponse(id, code) == ErrorEnvelope(id, RpcError(code, id))

\* A catch block that answers without the request's id.
CatchEnvelopeNullId(id, error) ==
  IF error.rpc THEN ErrorEnvelope(IdNull, error) ELSE ErrorEnvelope(IdNull, internalError)

\* The catch block of handleRequest.
CatchEnvelope(id, error) ==
  IF error.rpc THEN ErrorEnvelope(id, error) ELSE ErrorEnvelope(id, internalError)

(***************************************************************************)
(* Method handlers whose body has no await: the promise they return is     *)
(* settled when the call returns.                                          *)
(***************************************************************************)
\* NetworkExtension.methods.validatePort: the state of the promise returned.
\* `params = {}` in handleRequest makes absent params an empty object.
validatePort(params) ==
  IF params.port.t # "num" THEN "rejected"
  ELSE IF params.port.v < 1 \/ params.port.v > 65535 THEN "rejected"
  ELSE "fulfilled"

\* Map.prototype.set
MapSet(map, key, value) ==
  [k \in DOMAIN map \cup {key} |-> IF k = key THEN value ELSE map[k]]

\* The order in which a Map iterates after one Map.set: a key that was
\* present keeps its place, a new key goes last.  `before` and `after` are
\* the Map around a run in which Map.set was called at most once.
KeysAfterFront(order, before, after) ==
  IF DOMAIN after = DOMAIN before THEN order
  ELSE <<CHOOSE k \in DOMAIN after \ DOMAIN before : TRUE>> \o order

KeysAfter(order, before, after) ==
  IF DOMAIN after = DOMAIN before THEN order
  ELSE Append(order, CHOOSE k \in DOMAIN after \ DOMAIN before : TRUE)

\* ExtensionsManager.methods.list: Array.from(extensions.values()) mapped
\* to the listed members of each extension, and the length of that array.
\* `status` and `metadata` are read off the same object as `name`.
list(order, exts) ==
  [extensions |-> [i \in 1..Len(order) |-> [name |-> exts[order[i]].name]],
   total |-> Len(order)]

\* RPCService.loadExtensions hands the Map to the extension named
\* "extensions", which then serves list and register on it.
ManagerAttached(exts) ==
  \E k \in DOMAIN exts : exts[k].name = <<"extensions">>

\* A registration that replaces an entry of the same name.
registerOverwrite(exts, extension) ==
  [threw |-> FALSE, extensions |-> MapSet(exts, extension.name, extension)]

\* ExtensionsManager.registerExtension, and the body of methods.register
\* once it has its `extension`: throw if the name is present, else set.
registerExtension(exts, extension) ==
  IF extension.name \in DOMAIN exts
  THEN [threw |-> TRUE, extensions |-> exts]
  ELSE [threw |-> FALSE, extensions |-> MapSet(exts, extension.name, extension)]

\* ExtensionsManager.methods.register: without params.extension, reading
\* extension.name throws.
register(exts, params) ==
  IF params.extension = <<>> THEN [threw |-> TRUE, extensions |-> exts]
  ELSE registerExtension(exts, params.extension[1])

\* The promise methodHandler(params) returns: already settled for the
\* handlers above, "pending" for a handler that completes later.
HandlerPromise(request, exts) ==
  LET parts == split(request.method.s)
  IN IF parts[1] = <<"network">> /\ parts[2] = <<"validatePort">>
     THEN validatePort(request.params)
     ELSE IF parts[1] = <<"extensions">> /\ parts[2] = <<"register">>
     THEN (IF register(exts, request.params).threw THEN "rejected" ELSE "fulfilled")
     ELSE "pending"

(***************************************************************************)
(* loadExtensions: the loop over the entries of the bundled directory      *)
(* ("base") followed by those of the user's directory.                     *)
(*                                                                         *)
(* An entry is a name and what is found there: a plain file, a directory   *)
(* without an index file, a directory whose index file exports a class of  *)
(* objects without name or methods, or one that exports an extension.      *)
(***************************************************************************)
DirNames == {<<"echo">>, <<"extensions">>}
EntryKinds == {"file", "noindex", "invalid", "ok"}

\* The results readdir can give for a directory of at most n entries.
Listings(n) ==
  {l \in UNION {[1..k -> [name : DirNames, kind : EntryKinds]] : k \in 0..n} :
     \A i, j \in DOMAIN l : i # j => l[i].name # l[j].name}

\* The user's directory can also hold a directory whose index file exports
\* an extension that names itself otherwise than its directory ("renamed").
UserEntryKinds == EntryKinds \cup {"renamed"}

UserListings(n) ==
  {l \in UNION {[1..k -> [name : DirNames, kind : UserEntryKinds]] : k \in 0..n} :
     \A i, j \in DOMAIN l : i # j => l[i].name # l[j].name}

\* extension.name of the instance the module at that path constructs.
ExportedName(dir, kind) == IF kind = "renamed" THEN <<"extra">> ELSE dir

\* entriesBase.find((e) => e.name === entry.name)?.name
InBase(base, entry) == \E i \in DOMAIN base : base[i].name = entry.name

\* What is at the path the index file is looked for: under the base
\* directory whenever the base listing has an entry of that name.
TargetOf(base, entry) ==
  IF InBase(base, entry)
  THEN [origin |-> "base", kind |-> (CHOOSE e \in {base[i] : i \in DOMAIN base} : e.name = entry.name).kind]
  ELSE [origin |-> "user", kind |-> entry.kind]

\* new ExtensionClass() for the module found at that path.
NewExtension(name, origin) == [name |-> name, methods |-> {<<"run">>}, origin |-> origin]

\* One iteration of the loop: the Map and the logger output after it.
LoadEntry(base, entry, map, lg) ==
  LET target == TargetOf(base, entry)
      set == MapSet(map, entry.name,
                    NewExtension(ExportedName(entry.name, target.kind), target.origin))
  IN IF entry.kind = "file" THEN [map |-> map, log |-> lg]
     ELSE IF target.kind \in {"file", "noindex"}
     THEN [map |-> map, log |-> Append(lg, [level |-> "warning", about |-> entry.name])]
     ELSE IF target.kind = "invalid"
     THEN [map |-> map, log |-> Append(lg, [level |-> "warning", about |-> entry.name])]
     ELSE [map |-> set,
           log |-> Append(lg, [level |-> "info", about |-> entry.name])]

(***************************************************************************)
(* handleRequest up to the call of the method handler: the error thrown,   *)
(* or the handler found.                                                   *)
(***************************************************************************)
Thrown(e) == [tag |-> "throw", error |-> e, fn |-> "none"]
Found(fn) == [tag |-> "handler", error |-> PlainError, fn |-> fn]

ResolveMethod(request, exts) ==
  IF request.method.t # "str" THEN Thrown(PlainError)
  ELSE LET parts == split(request.method.s)
           extensionName == parts[1]
           methodName == IF Len(parts) >= 2 THEN parts[2] ELSE <<>>
       IN IF extensionName = <<>> \/ methodName = <<>> THEN Thrown(invalidRequest)
          ELSE IF extensionName \notin DOMAIN exts THEN Thrown(extensionNotFound)
          ELSE IF MethodLookup(exts[extensionName], methodName) = "undefined"
               THEN Thrown(methodNotFound)
          ELSE Found(MethodLookup(exts[extensionName], methodName))

(***************************************************************************)
(* One call of handleRequest.                                              *)
(*   fn       the function found: "own", "inherited", or "none"            *)
(*   st       "executing" while the race is undecided, then "returned"     *)
(*   handler  "none" (never invoked), "running", "resolved", "rejected"    *)
(*   invoked  how many times the method handler was called                 *)
(*   timer    "unset", "armed", "fired"                                    *)
(*   envs     the envelopes the call has returned                          *)
(*   thrown   the error the method handler threw or rejected with, if any  *)
(*   promise  the handler's promise when the handler returned it           *)
(*   terminal "none", "COMPLETED", "FAILED", "TIMED_OUT"                   *)
(***************************************************************************)
FailedCall(request, error, fn) ==
  [req |-> request, fn |-> fn, st |-> "returned",
   handler |-> IF fn = "none" THEN "none" ELSE "rejected",
   invoked |-> IF fn = "none" THEN 0 ELSE 1, timer |-> "unset",
   envs |-> <<CatchEnvelope(request.id, error)>>, terminal |-> "FAILED",
   thrown |-> IF fn = "none" THEN <<>> ELSE <<error>>, promise |-> "none"]

ExecutingCall(request, fn, promise) ==
  [req |-> request, fn |-> fn, st |-> "executing", handler |-> "running", invoked |-> 1,
   timer |-> "armed", envs |-> <<>>, terminal |-> "none", thrown |-> <<>>,
   promise |-> promise]

\* What the method handler does when it is called: it throws at once, or it
\* returns a value or a promise ("async").  A function inherited from
\* Object.prototype can throw a TypeError, not a taxonomy error.
SyncOutcomes == {[tag |-> "async", error |-> PlainError]}
                  \cup {[tag |-> "throw", error |-> e] : e \in HandlerErrors}

\* handleRequest from its entry to its first await (or to its return).
\* methodHandler(params) can be evaluated: the member found is a function.
IsCallable(extension) ==
  IF "callable" \in DOMAIN extension THEN extension.callable ELSE TRUE

StartCall(request, exts, sync) ==
  LET r == ResolveMethod(request, exts)
  IN IF r.tag = "throw" THEN FailedCall(request, r.error, "none")
     ELSE IF r.fn = "own" /\ ~IsCallable(exts[split(request.method.s)[1]])
          THEN FailedCall(request, PlainError, "none")
     ELSE IF /\ sync.tag = "throw" /\ (r.fn = "own" \/ ~sync.error.rpc)
             /\ (r.fn = "own" => HandlerPromise(request, exts) = "pending")
          THEN FailedCall(request, sync.error, r.fn)
     ELSE ExecutingCall(request, r.fn,
                        IF r.fn = "own" THEN HandlerPromise(request, exts) ELSE "pending")

\* A manager that registers into a Map of its own.
RegistryAfterOwnMap(request, exts) == exts

\* The registry once handleRequest has reached its first await: the manager
\* shares the service's Map, so `register` changes it while it runs.
RegistryAfter(request, exts) ==
  LET r == ResolveMethod(request, exts)
      parts == split(request.method.s)
  IN IF r.tag = "handler" /\ r.fn = "own"
        /\ parts[1] = <<"extensions">> /\ parts[2] = <<"register">>
     THEN register(exts, request.params).extensions
     ELSE exts

\* A race that lets a later input settle it again.
RaceNeverSettled(call) == FALSE

\* Promise.race settles with the first of its inputs that settles.
RaceSettled(call) == call.st # "executing"

\* A fulfilment that leaves the race open for the deadline.
OnHandlerResolveRaceOpen(call, result) == [call EXCEPT !.handler = "resolved"]

\* The method handler's promise fulfils.
OnHandlerResolve(call, result) ==
  IF RaceSettled(call) THEN [call EXCEPT !.handler = "resolved"]
  ELSE [call EXCEPT !.handler = "resolved", !.st = "returned",
                    !.envs = Append(@, ResultEnvelope(call.req.id, result)),
                    !.terminal = "COMPLETED"]

\* A rejection answered with a result member holding the error.
OnHandlerRejectAsResult(call, error) ==
  IF RaceSettled(call) THEN [call EXCEPT !.handler = "rejected", !.thrown = <<error>>]
  ELSE [call EXCEPT !.handler = "rejected", !.st = "returned", !.thrown = <<error>>,
                    !.envs = Append(@, ResultEnvelope(call.req.id, "value")),
                    !.terminal = "FAILED"]

\* The method handler's promise rejects.
OnHandlerReject(call, error) ==
  IF RaceSettled(call) THEN [call EXCEPT !.handler = "rejected", !.thrown = <<error>>]
  ELSE [call EXCEPT !.handler = "rejected", !.st = "returned", !.thrown = <<error>>,
                    !.envs = Append(@, CatchEnvelope(call.req.id, error)),
                    !.terminal = "FAILED"]

\* A deadline that fires without settling the race.
OnTimeoutNoAnswer(call) == [call EXCEPT !.timer = "fired"]

\* The setTimeout callback rejects the second promise of the race.
OnTimeout(call) ==
  IF RaceSettled(call) THEN [call EXCEPT !.timer = "fired"]
  ELSE [call EXCEPT !.timer = "fired", !.st = "returned",
                    !.envs = Append(@, CatchEnvelope(call.req.id, requestTimeout)),
                    !.terminal = "TIMED_OUT"]

(***************************************************************************)
(* The stream listener: bytes, frames and JSON.parse.                      *)
(*                                                                         *)
(* A byte string is a sequence of pieces: "NL" is the newline byte, "x" a  *)
(* byte that is not JSON, "BIG" a run of 1 MiB of bytes without a newline, *)
(* and each other piece is the text of one JSON value.  A socket read      *)
(* returns far less than 1 MiB, so "BIG" stands for a series of 'data'     *)
(* events none of which brings a newline; it never shares a chunk with     *)
(* other pieces.                                                           *)
(***************************************************************************)
maxBufferSize == 1048576

JsonTexts ==
  [t \in {"ping", "nope", "null"} |->
     CASE t = "ping" -> Req("2.0", MStr(<<"echo", ".", "ping">>), IdNum(1))
       [] t = "nope" -> Req("2.0", MStr(<<"nope", ".", "foo">>), IdStr(1))
       [] t = "null" -> JsonNull]

SmallPieces == {"NL", "x"} \cup DOMAIN JsonTexts
Pieces == SmallPieces \cup {"BIG"}

\* Buffer.length of one piece and of a byte string.
PieceLength(p) ==
  CASE p = "NL" -> 1
    [] p = "x" -> 1
    [] p = "BIG" -> 1048576
    [] p = "ping" -> 45
    [] p = "nope" -> 46
    [] p = "null" -> 4

RECURSIVE ByteLength(_)
ByteLength(b) == IF b = <<>> THEN 0 ELSE PieceLength(Head(b)) + ByteLength(Tail(b))

\* buffer.indexOf("\n"), 1-based; 0 when there is none.
RECURSIVE IndexFrom(_, _)
IndexFrom(b, i) ==
  IF i > Len(b) THEN 0 ELSE IF b[i] = "NL" THEN i ELSE IndexFrom(b, i + 1)

\* A scan that finds the last newline of the buffer instead of the first.
indexOfNewlineLast(b) ==
  IF \E i \in DOMAIN b : b[i] = "NL"
  THEN CHOOSE i \in DOMAIN b : b[i] = "NL" /\ \A j \in DOMAIN b : b[j] = "NL" => j <= i
  ELSE 0

indexOfNewline(b) == IndexFrom(b, 1)

\* JSON.parse: a value, or a SyntaxError.
JSONParse(messageStr) ==
  IF Len(messageStr) = 1 /\ messageStr[1] \in DOMAIN JsonTexts
  THEN [ok |-> TRUE, value |-> JsonTexts[messageStr[1]]]
  ELSE [ok |-> FALSE, value |-> JsonNull]

\* sendTCPResponse: writes unless the socket is destroyed.  `frame` records
\* which parsed frame the envelope answers (0: none).
sendTCPResponse(out, isDestroyed, frame, envelope) ==
  IF isDestroyed THEN out ELSE Append(out, [frame |-> frame, env |-> envelope])

\* The id the inner catch block answers with.
InnerCatchId(requestId) == requestId

(***************************************************************************)
(* The while loop of the 'data' handler, from a scan of the buffer to the  *)
(* next `await this.handleRequest(request)` or to the end of the loop.     *)
(*   buf, requestId  the shared buffer and the invocation's requestId      *)
(*   out             the bytes written to the socket so far                *)
(*   frames          the frames this run has sliced off so far             *)
(*   n0              the number of frames sliced before this run           *)
(***************************************************************************)
RECURSIVE ProcessMessages(_, _, _, _, _, _)
ProcessMessages(buf, requestId, out, frames, n0, isDestroyed) ==
  LET newlineIndex == indexOfNewline(buf)
  IN IF newlineIndex = 0
     THEN [buffer |-> buf, requestId |-> requestId, out |-> out, frames |-> frames,
           next |-> "return", request |-> JsonNull]
     ELSE LET messageStr == SubSeq(buf, 1, newlineIndex - 1)
              rest == SubSeq(buf, newlineIndex + 1, Len(buf))
              parsed == JSONParse(messageStr)
              frames1 == Append(frames, messageStr)
          IN IF parsed.ok /\ parsed.value.json # "null"
             THEN [buffer |-> rest, requestId |-> Coalesce(parsed.value.id), out |-> out,
                   frames |-> frames1, next |-> "dispatch", request |-> parsed.value]
             ELSE ProcessMessages(rest, requestId,
                    sendTCPResponse(out, isDestroyed, n0 + Len(frames1),
                       createErrorResponse(InnerCatchId(requestId), PARSE_ERROR)),
                    frames1, n0, isDestroyed)

\* A handler without the buffer check.
BufferOverflowUnchecked(buf) == FALSE

\* The buffer check at the top of the 'data' handler.
BufferOverflow(buf) == ByteLength(buf) > maxBufferSize

\* An overflow branch that answers but keeps the buffer.
OnOverflowKeepBuffer(buf, out, isDestroyed) ==
  [buffer |-> buf,
   out |-> sendTCPResponse(out, isDestroyed, 0, createErrorResponse(IdNull, SERVER_ERROR))]

\* The branch taken when the check fails: answer, then reset the buffer.
OnOverflow(buf, out, isDestroyed) ==
  [buffer |-> <<>>,
   out |-> sendTCPResponse(out, isDestroyed, 0, createErrorResponse(IdNull, SERVER_ERROR))]

(***************************************************************************)
(* The datagram listener.                                                  *)
(***************************************************************************)
\* sendUDPResponse: sends to the given return address while the socket is
\* set.  `msg` records which datagram the envelope answers.
sendUDPResponse(out, server, msg, rinfo, envelope) ==
  IF server = "null" THEN out ELSE Append(out, [msg |-> msg, to |-> rinfo, env |-> envelope])

\* The code of the envelope the 'message' handler's catch block builds for
\* an error that is not an RpcError.
UdpCatchCode == INTERNAL_ERROR

\* A return address kept in one place shared by all invocations.
ReplyAddressLatest(msgs, m) == msgs[Len(msgs)].rinfo

\* The `rinfo` parameter of invocation m of the 'message' handler: every
\* invocation has its own binding, which its continuation still sees.
ReplyAddress(msgs, m) == msgs[m].rinfo

(***************************************************************************)
(* State.                                                                  *)
(***************************************************************************)
VARIABLES
  extensions,   \* RPCService.extensions
  calls,        \* the calls of handleRequest made so far, in order
  buffer,       \* the connection's receive buffer
  destroyed,    \* socket.destroyed
  invs,         \* the invocations of the 'data' handler, in order of arrival
  tcpOut,       \* what was written to the socket, in order
  stream,       \* every byte received on the connection so far
  sliced,       \* the frames sliced off the buffer so far, in order
  udpMsgs,      \* the invocations of the 'message' handler, in order of arrival
  udpOut,       \* the datagrams sent, in order
  tcpServer,    \* RPCService.tcpServer: "null", or the state of the server object
  udpServer,    \* RPCService.udpServer: "null", or the state of the socket object
  initialized,  \* RPCService.initialized
  initResults,  \* what the calls of initialize() returned, in order
  openConns,    \* number of connections the TCP server still holds
  isShuttingDown, \* AgentService.isShuttingDown
  shutdown,     \* the locals of RPCService.shutdown and the state of its wait
  exitCode,     \* "running", or the code process.exit was called with
  registerCalls, \* the direct calls of registerExtension and whether each threw
  loader,       \* the inputs and locals of loadExtensions
  log,          \* what the loader wrote to the logger at info level and above
  extOrder,     \* the keys of RPCService.extensions in the Map's iteration order
  listed,       \* what the calls of extensions.list returned, in order
  client,       \* RpcClient: the clock, pendingRequests and the calls of send()
  conn          \* RpcClient: its sockets, reconnectAttempts, isClosing, timers

tcpVars == <<buffer, destroyed, invs, tcpOut, stream, sliced>>
udpVars == <<udpMsgs, udpOut>>
lifeVars == <<tcpServer, udpServer, initialized, initResults, openConns,
              isShuttingDown, shutdown, exitCode>>
clientVars == <<client, conn>>
regRest == <<registerCalls, loader, log, listed>>
regVars == <<registerCalls, loader, log, listed, extOrder>>
vars == <<extensions, calls, buffer, destroyed, invs, tcpOut, stream, sliced,
          udpMsgs, udpOut, tcpServer, udpServer, initialized, initResults,
          openConns, isShuttingDown, shutdown, exitCode, registerCalls, loader, log,
          extOrder, listed, client, conn>>

(***************************************************************************)
(* Requests handed to handleRequest directly.                              *)
(***************************************************************************)
Ids == {IdNull, IdStr(1), IdNum(1), Undef}

\* The extensions a caller offers for registration: one under a name the
\* registry holds after startup, one under a new name.
Candidates ==
  {[name |-> <<"echo">>, methods |-> {<<"shout">>}, callable |-> TRUE],
   [name |-> <<"extra">>, methods |-> {<<"run">>}, callable |-> TRUE]}

\* The same extension as it arrives in the params of a request: JSON.parse
\* yields no functions, so the members of its `methods` cannot be called.
FromJson(extension) == [extension EXCEPT !.callable = FALSE]

\* The `port` member of params: absent, a string, 80, 0, 70000.
PortValues == {Undef, IdStr(80), IdNum(80), IdNum(0), IdNum(70000)}

MethodValues ==
  {MStr(<<"echo", ".", "ping">>), MStr(<<"echo">>), MStr(<<>>),
   MStr(<<".", "ping">>), MStr(<<"echo", ".">>), MStr(<<"nope", ".", "foo">>),
   MStr(<<"echo", ".", "nope">>), MStr(<<"echo", ".", "ping", ".", "x">>),
   MStr(<<"echo", ".", "toString">>), MAbsent, MNumber}

DispatchRequests ==
  {Req("2.0", MStr(<<"echo", ".", "ping">>), id) : id \in Ids}
    \cup {Req("2.0", m, IdNum(1)) : m \in MethodValues}
    \cup {Req("2.0", MStr(<<"nope", ".", "foo">>), IdStr(1)),
          Req("1.0", MStr(<<"echo", ".", "ping">>), IdNull), JsonNumber}

\* Requests for network.validatePort.
ValidatePortRequests ==
  {ReqP("2.0", MStr(<<"network", ".", "validatePort">>), IdNum(1), p) :
     p \in {NoParams} \cup {PortParams(v) : v \in PortValues}}

\* Requests for the RPC method `register`, one for a bundled method and one
\* for a method of an extension that is offered for registration.
RegisterRequests ==
  {ReqP("2.0", MStr(<<"extensions", ".", "register">>), IdNum(1), p) :
     p \in {NoParams} \cup {RegisterParams(FromJson(e)) : e \in Candidates}}
    \cup {Req("2.0", MStr(<<"echo", ".", "ping">>), IdNum(1)),
          Req("2.0", MStr(<<"extra", ".", "run">>), IdNum(1))}

\* The chunks a peer can send when `n` pieces are still allowed.
Chunks(n) == {<<"BIG">>} \cup UNION {[1..k -> SmallPieces] : k \in 1..n}

\* The locals of shutdown() before it is called.
ShutdownIdle ==
  [pc |-> "idle", tcpDone |-> FALSE, tcpWaiting |-> FALSE, udpDone |-> FALSE,
   udpWaiting |-> FALSE, n |-> 0, wait |-> "none"]

\* The locals of loadExtensions while it is not running.
LoaderIdle ==
  [pc |-> "idle", base |-> <<>>, user |-> <<>>, i |-> 1, map |-> <<>>, order |-> <<>>]

\* RpcClient after construction: nothing pending, nothing sent.
ClientIdle == [now |-> 1, pendingRequests |-> <<>>, sends |-> <<>>]

\* RpcClient after construction: no socket, no reconnect, not closing.
\*   socks       the sockets created so far: "connecting", "connected",
\*               "errored" ('error' emitted, 'close' still to come), "closed";
\*               `listeners` is false after removeAllListeners()
\*   tcpClient   the index of the socket this.tcpClient refers to, 0 for null
\*   delays      handleConnectionError invocations waiting in their delay
\*   cleanup     the 1 s timer of close() is pending
\*   started     reconnect attempts started since the last successful connect
\*   lateInits   init() calls of reconnect attempts made while isClosing
ConnIdle ==
  [socks |-> <<>>, tcpClient |-> 0, reconnectAttempts |-> 0, isClosing |-> FALSE,
   delays |-> 0, cleanup |-> FALSE, started |-> 0, lateInits |-> 0]

\* No client is modelled next to the service.
NoClient == client = ClientIdle /\ conn = ConnIdle

\* The traffic part of the state, before any traffic.
NoTraffic ==
  /\ extensions = LoadedExtensions
  /\ extOrder = LoadedOrder
  /\ listed = <<>>
  /\ registerCalls = <<>>
  /\ loader = LoaderIdle
  /\ log = <<>>
  /\ calls = <<>>
  /\ buffer = <<>>
  /\ destroyed = FALSE
  /\ invs = <<>>
  /\ tcpOut = <<>>
  /\ stream = <<>>
  /\ sliced = <<>>
  /\ udpMsgs = <<>>
  /\ udpOut = <<>>

\* The service after initialize() bound both listeners and the TCP server
\* accepted a connection.
Init ==
  /\ NoTraffic
  /\ NoClient
  /\ tcpServer = "listening"
  /\ udpServer = "listening"
  /\ initialized = TRUE
  /\ initResults = <<[tcp |-> TRUE, udp |-> TRUE]>>
  /\ openConns = 1
  /\ isShuttingDown = FALSE
  /\ shutdown = ShutdownIdle
  /\ exitCode = "running"

\* The service after construction, when initialize() has called
\* loadExtensions and readdir has listed both directories.
InitLoad ==
  /\ NoClient
  /\ extensions = <<>>
  /\ extOrder = <<>>
  /\ listed = <<>>
  /\ calls = <<>>
  /\ buffer = <<>>
  /\ destroyed = FALSE
  /\ invs = <<>>
  /\ tcpOut = <<>>
  /\ stream = <<>>
  /\ sliced = <<>>
  /\ udpMsgs = <<>>
  /\ udpOut = <<>>
  /\ registerCalls = <<>>
  /\ log = <<>>
  /\ loader \in {[pc |-> "loop", base |-> b, user |-> u, i |-> 1, map |-> <<>>,
                    order |-> <<>>] :
                   b \in Listings(MaxBaseDirs), u \in UserListings(MaxUserDirs)}
  /\ tcpServer = "null"
  /\ udpServer = "null"
  /\ initialized = FALSE
  /\ initResults = <<>>
  /\ openConns = 0
  /\ isShuttingDown = FALSE
  /\ shutdown = ShutdownIdle
  /\ exitCode = "running"

\* The service after construction.
InitLifecycle ==
  /\ NoTraffic
  /\ NoClient
  /\ tcpServer = "null"
  /\ udpServer = "null"
  /\ initialized = FALSE
  /\ initResults = <<>>
  /\ openConns = 0
  /\ isShuttingDown = FALSE
  /\ shutdown = ShutdownIdle
  /\ exitCode = "running"

\* A continuation of an `await this.handleRequest(...)` is ready to run.
MicrotaskPending ==
  \/ \E i \in DOMAIN invs : invs[i].pc = "await" /\ calls[invs[i].call].st = "returned"
  \/ \E m \in DOMAIN udpMsgs :
        udpMsgs[m].pc = "await" /\ calls[udpMsgs[m].call].st = "returned"

(***************************************************************************)
(* handleRequest and its race.                                             *)
(***************************************************************************)
\* A caller hands one of `requests` to handleRequest.
DispatchOf(requests) ==
  /\ Len(calls) < MaxCalls
  /\ \E request \in requests, sync \in SyncOutcomes :
       /\ calls' = Append(calls, StartCall(request, extensions, sync))
       /\ extensions' = RegistryAfter(request, extensions)
  /\ extOrder' = KeysAfter(extOrder, extensions, extensions')
  /\ UNCHANGED <<clientVars, regRest, tcpVars, udpVars, lifeVars>>

Dispatch == DispatchOf(DispatchRequests)

HandlerResolve ==
  \E c \in DOMAIN calls, result \in HandlerResults :
    /\ calls[c].handler = "running"
    /\ calls[c].promise \in {"pending", "fulfilled"}
    /\ calls' = [calls EXCEPT ![c] = OnHandlerResolve(@, result)]
    /\ UNCHANGED <<clientVars, regVars, extensions, tcpVars, udpVars, lifeVars>>

HandlerReject ==
  \E c \in DOMAIN calls, error \in HandlerErrors :
    /\ calls[c].handler = "running"
    /\ calls[c].fn = "own"
    /\ calls[c].promise \in {"pending", "rejected"}
    /\ calls[c].promise = "rejected" => error = PlainError
    /\ calls' = [calls EXCEPT ![c] = OnHandlerReject(@, error)]
    /\ UNCHANGED <<clientVars, regVars, extensions, tcpVars, udpVars, lifeVars>>

\* A timer callback is a macrotask: it runs after the pending continuations,
\* and after the microtask that settles the race with a promise that was
\* already settled or with the value an inherited function returned.
TimerFire ==
  \E c \in DOMAIN calls :
    /\ calls[c].timer = "armed"
    /\ ~MicrotaskPending
    /\ calls[c].fn = "inherited" => calls[c].handler # "running"
    /\ calls[c].promise # "pending" => calls[c].handler # "running"
    /\ calls' = [calls EXCEPT ![c] = OnTimeout(@)]
    /\ UNCHANGED <<clientVars, regVars, extensions, tcpVars, udpVars, lifeVars>>

NextDispatch == Dispatch \/ HandlerResolve \/ HandlerReject \/ TimerFire

SpecDispatch == Init /\ [][NextDispatch]_vars

(***************************************************************************)
(* The 'data' handler of one accepted connection.                          *)
(***************************************************************************)
\* The effect of one run of the loop by invocation i.
LoopStep(i, run, sync, invs0) ==
  /\ buffer' = run.buffer
  /\ tcpOut' = run.out
  /\ sliced' = sliced \o run.frames
  /\ IF run.next = "dispatch"
     THEN /\ calls' = Append(calls, StartCall(run.request, extensions, sync))
          /\ extensions' = RegistryAfter(run.request, extensions)
          /\ invs' = [invs0 EXCEPT ![i] = [pc |-> "await", requestId |-> run.requestId,
                                           call |-> Len(calls) + 1,
                                           frame |-> Len(sliced) + Len(run.frames)]]
     ELSE /\ calls' = calls
          /\ extensions' = extensions
          /\ invs' = [invs0 EXCEPT ![i] = [pc |-> "done", requestId |-> run.requestId,
                                           call |-> 0, frame |-> 0]]

\* socket.on("data"): a chunk arrives.
Data ==
  /\ ~destroyed
  /\ ~MicrotaskPending
  /\ Len(invs) < MaxChunks
  /\ Len(stream) < MaxStreamLen
  /\ \E data \in Chunks(MaxStreamLen - Len(stream)), sync \in SyncOutcomes :
       LET buf == buffer \o data
           i == Len(invs) + 1
           fresh == [pc |-> "done", requestId |-> IdNull, call |-> 0, frame |-> 0]
       IN /\ stream' = stream \o data
          /\ IF BufferOverflow(buf)
             THEN /\ tcpOut' = OnOverflow(buf, tcpOut, destroyed).out
                  /\ buffer' = OnOverflow(buf, tcpOut, destroyed).buffer
                  /\ invs' = Append(invs, fresh)
                  /\ UNCHANGED <<extensions, calls, sliced>>
             ELSE LoopStep(i, ProcessMessages(buf, IdNull, tcpOut, <<>>, Len(sliced), destroyed),
                           sync, Append(invs, fresh))
  /\ extOrder' = KeysAfter(extOrder, extensions, extensions')
  /\ UNCHANGED <<clientVars, regRest, destroyed, udpVars, lifeVars>>

\* The continuation of `await this.handleRequest(request)` in invocation i:
\* write the response, then go on with the loop on the shared buffer.
Resume ==
  \E i \in DOMAIN invs, sync \in SyncOutcomes :
    /\ invs[i].pc = "await"
    /\ calls[invs[i].call].st = "returned"
    /\ LET response == calls[invs[i].call].envs[1]
           out1 == sendTCPResponse(tcpOut, destroyed, invs[i].frame, response)
       IN LoopStep(i, ProcessMessages(buffer, invs[i].requestId, out1, <<>>, Len(sliced), destroyed),
                   sync, invs)
    /\ extOrder' = KeysAfter(extOrder, extensions, extensions')
    /\ UNCHANGED <<clientVars, regRest, destroyed, stream, udpVars, lifeVars>>

\* 'timeout', 'error' or 'close' on the socket: cleanupSocket destroys it.
Close ==
  /\ ~destroyed
  /\ ~MicrotaskPending
  /\ destroyed' = TRUE
  /\ UNCHANGED <<clientVars, regVars, extensions, calls, buffer, invs, tcpOut, stream, sliced, udpVars, lifeVars>>

Next == Data \/ Resume \/ Close \/ HandlerResolve \/ HandlerReject \/ TimerFire

Spec == Init /\ [][Next]_vars

(***************************************************************************)
(* The 'message' handler of the UDP socket.                                *)
(***************************************************************************)
Datagrams == {<<"ping">>, <<"nope">>, <<"null">>, <<"x">>}
Senders == {"A", "B"}

\* udpServer.on("message"): a datagram arrives from rinfo.
Message ==
  /\ udpServer = "listening"
  /\ ~MicrotaskPending
  /\ Len(udpMsgs) < MaxDatagrams
  /\ \E data \in Datagrams, rinfo \in Senders, sync \in SyncOutcomes :
       LET m == Len(udpMsgs) + 1
           parsed == JSONParse(data)
       IN IF parsed.ok /\ parsed.value.json # "null"
          THEN /\ calls' = Append(calls, StartCall(parsed.value, extensions, sync))
               /\ extensions' = RegistryAfter(parsed.value, extensions)
               /\ udpMsgs' = Append(udpMsgs, [data |-> data, rinfo |-> rinfo, pc |-> "await",
                                              requestId |-> Coalesce(parsed.value.id),
                                              call |-> Len(calls) + 1])
               /\ udpOut' = udpOut
          ELSE /\ calls' = calls
               /\ extensions' = extensions
               /\ udpMsgs' = Append(udpMsgs, [data |-> data, rinfo |-> rinfo, pc |-> "done",
                                              requestId |-> IdNull, call |-> 0])
               /\ udpOut' = sendUDPResponse(udpOut, udpServer, m, rinfo,
                                            createErrorResponse(IdNull, UdpCatchCode))
  /\ extOrder' = KeysAfter(extOrder, extensions, extensions')
  /\ UNCHANGED <<clientVars, regRest, tcpVars, lifeVars>>

\* The continuation of `await this.handleRequest(request)` for datagram m.
UdpResume ==
  \E m \in DOMAIN udpMsgs :
    /\ udpMsgs[m].pc = "await"
    /\ calls[udpMsgs[m].call].st = "returned"
    /\ udpOut' = sendUDPResponse(udpOut, udpServer, m, ReplyAddress(udpMsgs, m),
                                 calls[udpMsgs[m].call].envs[1])
    /\ udpMsgs' = [udpMsgs EXCEPT ![m].pc = "done"]
    /\ UNCHANGED <<clientVars, regVars, extensions, calls, tcpVars, lifeVars>>

NextUDP == Message \/ UdpResume \/ HandlerResolve \/ HandlerReject \/ TimerFire

SpecUDP == Init /\ [][NextUDP]_vars

(***************************************************************************)
(* initialize() and shutdown().                                            *)
(***************************************************************************)
\* !!server
IsSet(server) == server # "null"

\* What initializeTCPServer and initializeUDPServer resolve with: true from
\* the 'listening' callback, false from the 'error' handler (port in use).
BindResult(portFree) == portFree

\* A result that reports success only when both transports are bound.
InitializeResultAllOrNothing(tcp, udp) == [tcp |-> tcp /\ udp, udp |-> tcp /\ udp]

\* const [tcp, udp] = await Promise.all([...]); return { tcp, udp }
InitializeResult(tcp, udp) == [tcp |-> tcp, udp |-> udp]

\* RPCService.initialize(): the listeners report whether they could bind.
Initialize ==
  /\ exitCode = "running"
  /\ Len(initResults) < MaxInitCalls
  /\ IF initialized
     THEN /\ initResults' = Append(initResults, [tcp |-> IsSet(tcpServer), udp |-> IsSet(udpServer)])
          /\ UNCHANGED <<tcpServer, udpServer, initialized>>
     ELSE \E tcpPortFree \in BOOLEAN, udpPortFree \in BOOLEAN :
            /\ tcpServer' = IF tcpPortFree THEN "listening" ELSE "failed"
            /\ udpServer' = IF udpPortFree THEN "listening" ELSE "failed"
            /\ initialized' = TRUE
            /\ initResults' = Append(initResults,
                 InitializeResult(BindResult(tcpPortFree), BindResult(udpPortFree)))
  /\ UNCHANGED <<clientVars, regVars, extensions, calls, tcpVars, udpVars, openConns, isShuttingDown, shutdown, exitCode>>

\* A peer connects to the listening TCP server.
Connect ==
  /\ exitCode = "running"
  /\ tcpServer = "listening"
  /\ openConns < MaxOpenConns
  /\ openConns' = openConns + 1
  /\ UNCHANGED <<clientVars, regVars, extensions, calls, tcpVars, udpVars, tcpServer, udpServer, initialized,
                 initResults, isShuttingDown, shutdown, exitCode>>

\* A connection ends (peer disconnect, idle timeout or socket error).
Disconnect ==
  /\ exitCode = "running"
  /\ openConns > 0
  /\ openConns' = openConns - 1
  /\ UNCHANGED <<clientVars, regVars, extensions, calls, tcpVars, udpVars, tcpServer, udpServer, initialized,
                 initResults, isShuttingDown, shutdown, exitCode>>

\* SIGTERM or SIGINT: AgentService.shutdown calls RPCService.shutdown, which
\* arms its one timer and waits.
Signal ==
  /\ exitCode = "running"
  /\ IF isShuttingDown
     THEN UNCHANGED <<isShuttingDown, shutdown>>
     ELSE /\ isShuttingDown' = TRUE
          /\ shutdown' = [ShutdownIdle EXCEPT !.pc = "armed", !.wait = "pending"]
  /\ UNCHANGED <<clientVars, regVars, extensions, calls, tcpVars, udpVars, tcpServer, udpServer, initialized,
                 initResults, openConns, exitCode>>

\* server.close(cb) on a server object: it stops listening; cb runs later.
CloseIssued(server) == IF server = "null" THEN "null" ELSE "closing"

\* The callback of the setTimeout in shutdown(), and what follows it when
\* the callback settles the wait.
ShutdownTimer ==
  /\ exitCode = "running"
  /\ shutdown.pc = "armed"
  /\ LET closeTcp == ~shutdown.tcpDone /\ ~shutdown.tcpWaiting
         closeUdp == ~shutdown.udpDone /\ ~shutdown.udpWaiting
         allDone == /\ shutdown.tcpDone /\ ~shutdown.tcpWaiting
                    /\ shutdown.udpDone /\ ~shutdown.udpWaiting
         n1 == shutdown.n + 1
         wait1 == IF allDone THEN "resolved" ELSE IF n1 >= 5 THEN "rejected" ELSE "pending"
     IN /\ shutdown' = [shutdown EXCEPT !.pc = "fired", !.n = n1, !.wait = wait1]
        /\ IF wait1 = "resolved"
           THEN /\ initialized' = FALSE
                /\ tcpServer' = "null"
                /\ udpServer' = "null"
                /\ exitCode' = "0"
           ELSE /\ initialized' = initialized
                /\ tcpServer' = IF closeTcp THEN CloseIssued(tcpServer) ELSE tcpServer
                /\ udpServer' = IF closeUdp THEN CloseIssued(udpServer) ELSE udpServer
                /\ exitCode' = IF wait1 = "rejected" THEN "1" ELSE "running"
  /\ UNCHANGED <<clientVars, regVars, extensions, calls, tcpVars, udpVars, initResults, openConns, isShuttingDown>>

\* The callback given to tcpServer.close: runs once the server has stopped
\* and its connections have ended.
TcpClosed ==
  /\ exitCode = "running"
  /\ tcpServer = "closing"
  /\ openConns = 0
  /\ tcpServer' = "closed"
  /\ shutdown' = [shutdown EXCEPT !.tcpDone = TRUE, !.tcpWaiting = FALSE]
  /\ UNCHANGED <<clientVars, regVars, extensions, calls, tcpVars, udpVars, udpServer, initialized, initResults,
                 openConns, isShuttingDown, exitCode>>

\* The callback given to udpServer.close.
UdpClosed ==
  /\ exitCode = "running"
  /\ udpServer = "closing"
  /\ udpServer' = "closed"
  /\ shutdown' = [shutdown EXCEPT !.udpDone = TRUE, !.udpWaiting = FALSE]
  /\ UNCHANGED <<clientVars, regVars, extensions, calls, tcpVars, udpVars, tcpServer, initialized, initResults,
                 openConns, isShuttingDown, exitCode>>

NextLifecycle ==
  Initialize \/ Connect \/ Disconnect \/ Signal \/ ShutdownTimer \/ TcpClosed \/ UdpClosed

SpecLifecycle == InitLifecycle /\ [][NextLifecycle]_vars

\* Node runs a timer that is due and a close callback that is ready.
SpecLifecycleFair ==
  /\ SpecLifecycle
  /\ WF_vars(ShutdownTimer) /\ WF_vars(TcpClosed) /\ WF_vars(UdpClosed)

(***************************************************************************)
(* The registry at run time: the RPC method extensions.register (through   *)
(* handleRequest) and direct calls of registerExtension, next to calls of  *)
(* network.validatePort.                                                   *)
(***************************************************************************)
\* A caller invokes ExtensionsManager.registerExtension(extension).
RegisterExtension ==
  /\ loader.pc # "loop"
  /\ ManagerAttached(extensions)
  /\ Len(registerCalls) < MaxRegisterCalls
  /\ \E extension \in Candidates :
       LET r == registerExtension(extensions, extension)
       IN /\ extensions' = r.extensions
          /\ registerCalls' = Append(registerCalls, [extension |-> extension, threw |-> r.threw])
  /\ extOrder' = KeysAfter(extOrder, extensions, extensions')
  /\ UNCHANGED <<clientVars, calls, loader, log, listed, tcpVars, udpVars, lifeVars>>

\* A caller invokes extensions.list and keeps what it returned.
List ==
  /\ loader.pc # "loop"
  /\ ManagerAttached(extensions)
  /\ Len(listed) < MaxListCalls
  /\ listed' = Append(listed, list(extOrder, extensions))
  /\ UNCHANGED <<clientVars, extensions, extOrder, calls, registerCalls, loader, log,
                 tcpVars, udpVars, lifeVars>>

\* A caller hands a request to handleRequest while the registry is in use.
DispatchRegister == DispatchOf(RegisterRequests)

NextRegistry ==
  RegisterExtension \/ DispatchRegister \/ HandlerResolve \/ HandlerReject \/ TimerFire

SpecRegistry == Init /\ [][NextRegistry]_vars

\* A caller hands a network.validatePort request to handleRequest.
DispatchValidatePort == DispatchOf(ValidatePortRequests)

NextValidate == DispatchValidatePort \/ HandlerResolve \/ HandlerReject \/ TimerFire

SpecValidate == Init /\ [][NextValidate]_vars

(***************************************************************************)
(* Bulk loading at startup.                                                *)
(***************************************************************************)
\* One iteration of the for loop of loadExtensions.
LoadNext ==
  /\ loader.pc = "loop"
  /\ loader.i <= Len(loader.base \o loader.user)
  /\ LET r == LoadEntry(loader.base, (loader.base \o loader.user)[loader.i], loader.map, log)
     IN /\ loader' = [loader EXCEPT !.i = @ + 1, !.map = r.map,
                                    !.order = KeysAfter(@, loader.map, r.map)]
        /\ log' = r.log
  /\ UNCHANGED <<clientVars, extensions, extOrder, listed, calls, registerCalls, tcpVars, udpVars, lifeVars>>

\* loadExtensions returns its Map and RPCService.loadExtensions keeps it.
LoadDone ==
  /\ loader.pc = "loop"
  /\ loader.i > Len(loader.base \o loader.user)
  /\ loader' = [loader EXCEPT !.pc = "done"]
  /\ extensions' = loader.map
  /\ extOrder' = loader.order
  /\ UNCHANGED <<clientVars, log, listed, calls, registerCalls, tcpVars, udpVars, lifeVars>>

NextLoad == LoadNext \/ LoadDone \/ RegisterExtension \/ List

SpecLoad == InitLoad /\ [][NextLoad]_vars

(***************************************************************************)
(* Properties.                                                             *)
(***************************************************************************)
(***************************************************************************)
(* RpcClient: send() and the responses.                                    *)
(*   now              Date.now(), in milliseconds                          *)
(*   pendingRequests  Map from request id to the call whose resolve,       *)
(*                    reject and timeout the entry holds                   *)
(*   sends            the calls of send(): the id sent, "pending",         *)
(*                    "resolved" or "rejected", the request whose response *)
(*                    resolved it (`by`), its timer, and whether the       *)
(*                    server's response to it has arrived                  *)
(***************************************************************************)
\* Map.prototype.delete
MapDelete(map, key) == [k \in DOMAIN map \ {key} |-> map[k]]

\* const requestId = Date.now().toString()
NewRequestId(now) == now

\* sendTcpRequest / sendUdpRequest: arm the timer, set the pending entry
\* under the new id, write the request.
sendTcpRequest(c) ==
  LET requestId == NewRequestId(c.now)
  IN [c EXCEPT !.sends = Append(@, [id |-> requestId, st |-> "pending", by |-> 0,
                                    timer |-> "armed", answered |-> FALSE]),
               !.pendingRequests = MapSet(@, requestId, Len(c.sends) + 1)]

\* handleTcpResponse / handleUdpResponse for the server's response to
\* request k, which carries k's id and k's result.
handleTcpResponse(c, k) ==
  LET id == c.sends[k].id
      arrived == [c EXCEPT !.sends[k].answered = TRUE]
  IN IF id \in DOMAIN c.pendingRequests
     THEN LET e == c.pendingRequests[id]
          IN [arrived EXCEPT !.sends[e].timer = "cleared",
                             !.sends[e].st = "resolved",
                             !.sends[e].by = k,
                             !.pendingRequests = MapDelete(@, id)]
     ELSE arrived

\* The setTimeout callback of call k: delete the entry under k's id, reject.
onRequestTimeout(c, k) ==
  [c EXCEPT !.pendingRequests = MapDelete(@, c.sends[k].id),
            !.sends[k].timer = "fired",
            !.sends[k].st = IF @ = "pending" THEN "rejected" ELSE @]

\* A millisecond passes.
ClientTick ==
  /\ client.now < MaxNow
  /\ client' = [client EXCEPT !.now = @ + 1]
  /\ UNCHANGED <<conn, extensions, calls, tcpVars, udpVars, lifeVars, regVars>>

\* The application calls send() on the connected client.
ClientSend ==
  /\ conn.tcpClient # 0
  /\ Len(client.sends) < MaxSends
  /\ client' = sendTcpRequest(client)
  /\ UNCHANGED <<conn, extensions, calls, tcpVars, udpVars, lifeVars, regVars>>

\* The server's response to a request arrives in a 'data' event.
ClientResponse ==
  \E k \in DOMAIN client.sends :
    /\ ~client.sends[k].answered
    /\ client' = handleTcpResponse(client, k)
    /\ UNCHANGED <<conn, extensions, calls, tcpVars, udpVars, lifeVars, regVars>>

\* The request timer of a call fires, some time after the call was made.
ClientRequestTimeout ==
  \E k \in DOMAIN client.sends :
    /\ client.sends[k].timer = "armed"
    /\ client.now > client.sends[k].id
    /\ client' = onRequestTimeout(client, k)
    /\ UNCHANGED <<conn, extensions, calls, tcpVars, udpVars, lifeVars, regVars>>

\* A client whose init() has connected its socket.
ConnConnected ==
  [ConnIdle EXCEPT !.socks = <<[st |-> "connected", listeners |-> TRUE]>>, !.tcpClient = 1]

InitClient ==
  /\ NoTraffic
  /\ client = ClientIdle
  /\ conn = ConnConnected
  /\ tcpServer = "listening"
  /\ udpServer = "listening"
  /\ initialized = TRUE
  /\ initResults = <<[tcp |-> TRUE, udp |-> TRUE]>>
  /\ openConns = 1
  /\ isShuttingDown = FALSE
  /\ shutdown = ShutdownIdle
  /\ exitCode = "running"

NextClient == ClientTick \/ ClientSend \/ ClientResponse \/ ClientRequestTimeout

SpecClient == InitClient /\ [][NextClient]_vars

(***************************************************************************)
(* RpcClient: the TCP socket, reconnection and close().                    *)
(***************************************************************************)
maxReconnectAttempts == 3

\* handleConnectionError up to its delay: throw while closing or when the
\* attempts are used up, else count the attempt and wait.
handleConnectionError(c) ==
  IF c.isClosing \/ c.reconnectAttempts >= maxReconnectAttempts THEN c
  ELSE [c EXCEPT !.reconnectAttempts = @ + 1, !.delays = @ + 1, !.started = @ + 1]

\* initializeTcpClient: a new socket with its listeners becomes tcpClient.
initializeTcpClient(c) ==
  [c EXCEPT !.socks = Append(@, [st |-> "connecting", listeners |-> TRUE]),
            !.tcpClient = Len(c.socks) + 1]

\* The connect callback of a socket.
ConnConnect ==
  /\ \E s \in DOMAIN conn.socks :
       /\ conn.socks[s].st = "connecting"
       /\ conn.socks[s].listeners
       /\ conn' = [conn EXCEPT !.socks[s].st = "connected", !.reconnectAttempts = 0,
                               !.started = 0]
  /\ UNCHANGED <<client, extensions, calls, tcpVars, udpVars, lifeVars, regVars>>

\* 'error' on a socket: the handler calls handleConnectionError.
ConnError ==
  /\ \E s \in DOMAIN conn.socks :
       /\ conn.socks[s].st \in {"connecting", "connected"}
       /\ conn.socks[s].listeners
       /\ conn' = handleConnectionError([conn EXCEPT !.socks[s].st = "errored"])
  /\ UNCHANGED <<client, extensions, calls, tcpVars, udpVars, lifeVars, regVars>>

\* 'close' on a socket, after its 'error' or when the peer closed: the
\* handler calls handleConnectionError unless the client is closing.
ConnClose ==
  /\ \E s \in DOMAIN conn.socks :
       /\ conn.socks[s].st \in {"errored", "connected"}
       /\ conn.socks[s].listeners
       /\ LET closed == [conn EXCEPT !.socks[s].st = "closed"]
          IN conn' = IF conn.isClosing THEN closed ELSE handleConnectionError(closed)
  /\ UNCHANGED <<client, extensions, calls, tcpVars, udpVars, lifeVars, regVars>>

\* The delay of a handleConnectionError invocation is over: it calls init().
ConnDelayElapsed ==
  /\ conn.delays > 0
  /\ Len(conn.socks) < MaxSockets
  /\ conn' = initializeTcpClient([conn EXCEPT !.delays = @ - 1,
                                              !.lateInits = IF conn.isClosing THEN @ + 1 ELSE @])
  /\ UNCHANGED <<client, extensions, calls, tcpVars, udpVars, lifeVars, regVars>>

\* The application calls close(): the flag is set and the cleanup timer armed.
ConnCloseCall ==
  /\ ~conn.isClosing
  /\ conn' = [conn EXCEPT !.isClosing = TRUE, !.cleanup = TRUE]
  /\ UNCHANGED <<client, extensions, calls, tcpVars, udpVars, lifeVars, regVars>>

\* The cleanup timer of close(): the current socket loses its listeners and
\* is ended, then `finally` clears the flag and the attempts.
ConnCleanup ==
  /\ conn.cleanup
  /\ conn' = [conn EXCEPT
                !.socks = [s \in DOMAIN @ |->
                             IF s = conn.tcpClient
                             THEN [st |-> "closed", listeners |-> FALSE] ELSE @[s]],
                !.tcpClient = 0, !.cleanup = FALSE, !.isClosing = FALSE,
                !.reconnectAttempts = 0]
  /\ UNCHANGED <<client, extensions, calls, tcpVars, udpVars, lifeVars, regVars>>

NextClientConn ==
  ConnConnect \/ ConnError \/ ConnClose \/ ConnDelayElapsed \/ ConnCloseCall \/ ConnCleanup

SpecClientConn == InitClient /\ [][NextClientConn]_vars

Terminals == {"COMPLETED", "FAILED", "TIMED_OUT"}

\* Number of newline bytes in a byte string: its number of complete frames.
RECURSIVE NumNL(_)
NumNL(b) == IF b = <<>> THEN 0 ELSE (IF Head(b) = "NL" THEN 1 ELSE 0) + NumNL(Tail(b))

\* The chunk appended to the stream by a step.
ChunkOfStep == SubSeq(stream', Len(stream) + 1, Len(stream'))

\* C1: every call of handleRequest, whichever path it takes, ends in exactly
\* one of COMPLETED / FAILED / TIMED_OUT and returns exactly one response
\* envelope: none while the race is undecided, one as soon as the request is
\* rejected, the handler settles or the deadline fires, and never two.
C1_ExactlyOneEnvelope ==
  \A c \in DOMAIN calls :
    /\ Len(calls[c].envs) <= 1
    /\ (calls[c].st = "returned") <=> (Len(calls[c].envs) = 1)
    /\ (calls[c].st = "returned") <=> (calls[c].terminal \in Terminals)
    /\ (calls[c].st = "executing") <=> (calls[c].terminal = "none")
    /\ calls[c].timer = "fired" => calls[c].st = "returned"
    /\ calls[c].handler \in {"none", "resolved", "rejected"} => calls[c].st = "returned"

\* C1 witness: one call timed out and its handler completed afterwards,
\* another completed and its timer fired afterwards, each with one envelope.
C1_Witness ==
  /\ \E c \in DOMAIN calls :
       /\ calls[c].terminal = "TIMED_OUT" /\ calls[c].handler = "resolved"
       /\ Len(calls[c].envs) = 1
  /\ \E c \in DOMAIN calls :
       /\ calls[c].terminal = "COMPLETED" /\ calls[c].timer = "fired"
       /\ Len(calls[c].envs) = 1

C6_IdEchoed ==
  \A c \in DOMAIN calls :
    calls[c].req.id.t \in {"null", "str", "num"} =>
      \A k \in DOMAIN calls[c].envs : calls[c].envs[k].id = calls[c].req.id

\* C6 witness: a string id answered on an error path and a null id answered
\* on the success path.
C6_Witness ==
  /\ \E c \in DOMAIN calls :
       /\ calls[c].req.id = IdStr(1) /\ calls[c].terminal = "FAILED"
       /\ calls[c].envs[1].id = IdStr(1)
  /\ \E c \in DOMAIN calls :
       /\ calls[c].req.id = IdNull /\ calls[c].terminal = "COMPLETED"
       /\ calls[c].envs[1].id = IdNull

\* C2: on the connection, responses are written in the order in which their
\* frames were parsed.
C2_ResponsesInParseOrder ==
  \A j, k \in DOMAIN tcpOut :
    (j < k /\ tcpOut[j].frame # 0 /\ tcpOut[k].frame # 0) => tcpOut[j].frame < tcpOut[k].frame

\* C3: on the connection at most one request is in dispatch at any time: no
\* frame is handed to handleRequest before the response to the previous one
\* is written.
C3_OneDispatchAtATime ==
  Cardinality({i \in DOMAIN invs : invs[i].pc = "await"}) <= 1

\* C5: shutdown always terminates: once its wait has started, the wait
\* settles and the process exits.
C5_ShutdownTerminates ==
  (shutdown.wait = "pending") ~> (shutdown.wait \in {"resolved", "rejected"} /\ exitCode # "running")

\* C7: every frame that is not valid JSON is answered with code -32700 and
\* id null, whatever was parsed before it.
C7_ParseErrorIdNull ==
  \A k \in DOMAIN tcpOut :
    (tcpOut[k].frame # 0 /\ ~JSONParse(sliced[tcpOut[k].frame]).ok) =>
      (tcpOut[k].env.code = -32700 /\ tcpOut[k].env.id = IdNull)

\* C8: a datagram that is not valid JSON is answered with one datagram that
\* carries a ParseError envelope (code -32700) with id null.
C8_DatagramParseError ==
  \A m \in DOMAIN udpMsgs :
    ~JSONParse(udpMsgs[m].data).ok =>
      /\ Cardinality({k \in DOMAIN udpOut : udpOut[k].msg = m}) = 1
      /\ \A k \in DOMAIN udpOut :
           udpOut[k].msg = m => (udpOut[k].env.code = -32700 /\ udpOut[k].env.id = IdNull)

\* The frames that were sliced and are neither answered nor awaited.
Unanswered ==
  {f \in DOMAIN sliced :
     /\ ~\E k \in DOMAIN tcpOut : tcpOut[k].frame = f
     /\ ~\E i \in DOMAIN invs : invs[i].pc = "await" /\ invs[i].frame = f}

\* An overflow was answered on the open connection.
OverflowAnswered ==
  \E k \in DOMAIN tcpOut : tcpOut[k].frame = 0 /\ tcpOut[k].env.code = -32000

\* C9: when appending a chunk makes the buffer exceed 1 MiB, the listener
\* writes one ServerError envelope (code -32000, id null), empties the
\* buffer, starts no dispatch and leaves the connection open; afterwards a
\* chunk that completes a frame has that frame sliced at once, and every
\* frame sliced is answered or in dispatch.
C9_OverflowResets ==
  /\ [][(Len(stream') > Len(stream) /\ ByteLength(buffer \o ChunkOfStep) > 1048576) =>
          /\ Len(tcpOut') = Len(tcpOut) + 1
          /\ tcpOut'[Len(tcpOut')].env.kind = "error"
          /\ tcpOut'[Len(tcpOut')].env.code = -32000
          /\ tcpOut'[Len(tcpOut')].env.id = IdNull
          /\ buffer' = <<>>
          /\ destroyed' = FALSE
          /\ calls' = calls /\ sliced' = sliced]_vars
  /\ [][(OverflowAnswered /\ Len(stream') > Len(stream)
           /\ ByteLength(buffer \o ChunkOfStep) <= 1048576
           /\ NumNL(buffer \o ChunkOfStep) > 0) =>
          Len(sliced') > Len(sliced)]_vars
  /\ []((OverflowAnswered /\ ~destroyed) => Unanswered = {})

\* C9 witness: after the overflow answer, a frame received on the same
\* connection was dispatched and answered with its result.
C9_Witness ==
  /\ ~destroyed
  /\ \E j, k \in DOMAIN tcpOut :
       /\ j < k
       /\ tcpOut[j].frame = 0 /\ tcpOut[j].env.code = -32000 /\ tcpOut[j].env.id = IdNull
       /\ tcpOut[k].frame # 0 /\ tcpOut[k].env.kind = "result"

\* C10: every complete frame received on a connection that stays open is
\* eventually answered, so none is ever dropped: at any time each complete
\* frame received is answered, in dispatch, or still in the receive buffer.
C10_EveryFrameAnswered ==
  ~destroyed =>
    NumNL(stream) <= Len(tcpOut) + Cardinality({i \in DOMAIN invs : invs[i].pc = "await"})
                       + NumNL(buffer)

\* C11: with datagrams from different senders in dispatch at the same time,
\* each response datagram carries the envelope of its own request and is
\* sent to the address and port recorded on that request's datagram, never
\* to the sender of another request in flight.
C11_ReplyToOwnSender ==
  \A k \in DOMAIN udpOut :
    LET m == udpOut[k].msg
    IN /\ m \in DOMAIN udpMsgs
       /\ udpOut[k].to = udpMsgs[m].rinfo
       /\ udpMsgs[m].call # 0 => udpOut[k].env = calls[udpMsgs[m].call].envs[1]

\* C11 witness: two senders had requests in dispatch together: the second
\* datagram was answered while the first was still in flight, then the first
\* was answered, each at its own address.
C11_Witness ==
  /\ Len(udpOut) = 2
  /\ udpOut[1].msg = 2 /\ udpOut[2].msg = 1
  /\ udpMsgs[1].call # 0 /\ udpMsgs[2].call # 0
  /\ udpMsgs[1].rinfo # udpMsgs[2].rinfo
  /\ udpOut[1].to = udpMsgs[2].rinfo /\ udpOut[2].to = udpMsgs[1].rinfo

\* C12: no envelope returned by handleRequest has both a result and an
\* error member; the error member is present exactly when the call ended
\* FAILED or TIMED_OUT; a result member is present only when the handler
\* completed, and it completed while the deadline had not fired.
C12_ResultXorError ==
  /\ [](\A c \in DOMAIN calls : \A k \in DOMAIN calls[c].envs :
          LET env == calls[c].envs[k]
          IN /\ env.kind \in {"result", "error"}
             /\ (env.kind = "error") <=> (calls[c].terminal \in {"FAILED", "TIMED_OUT"})
             /\ env.kind = "error" => env.result = "none"
             /\ env.kind = "result" =>
                  (calls[c].terminal = "COMPLETED" /\ calls[c].handler = "resolved"
                     /\ env.code = 0))
  /\ [][\A c \in DOMAIN calls :
          (Len(calls'[c].envs) > Len(calls[c].envs)
             /\ calls'[c].envs[Len(calls'[c].envs)].kind = "result")
            => (calls[c].timer = "armed" /\ calls[c].handler = "running"
                  /\ calls'[c].handler = "resolved")]_vars

\* C12 witness: one call returned a result envelope before its deadline and
\* another returned an error envelope after its handler rejected.
C12_Witness ==
  /\ \E c \in DOMAIN calls :
       /\ calls[c].terminal = "COMPLETED" /\ calls[c].timer = "armed"
       /\ calls[c].envs[1].kind = "result" /\ calls[c].envs[1].result = "undefined"
  /\ \E c \in DOMAIN calls :
       /\ calls[c].terminal = "FAILED" /\ calls[c].handler = "rejected"
       /\ calls[c].envs[1].kind = "error"

\* C13: an exception thrown or a rejection produced by a method handler
\* while the race is undecided is caught inside handleRequest, which returns
\* one error envelope: code -32603 for an arbitrary error, the error's own
\* code when it is an RpcError; the call returns, it never raises.
C13_HandlerFailureCaught ==
  \A c \in DOMAIN calls :
    calls[c].thrown # <<>> =>
      /\ calls[c].st = "returned"
      /\ Len(calls[c].envs) = 1
      /\ calls[c].envs[1].kind = "error"
      /\ calls[c].terminal = "FAILED" =>
           calls[c].envs[1].code =
             (IF calls[c].thrown[1].rpc THEN calls[c].thrown[1].code ELSE -32603)

\* C13 witness: one handler failed with an RpcError and was answered with
\* that error's code, another failed with a plain Error and was answered
\* with -32603.
C13_Witness ==
  /\ \E c \in DOMAIN calls :
       /\ calls[c].terminal = "FAILED" /\ calls[c].thrown = <<RpcError(INVALID_PARAMS, Undef)>>
       /\ calls[c].envs[1].code = -32602
  /\ \E c \in DOMAIN calls :
       /\ calls[c].terminal = "FAILED" /\ calls[c].thrown = <<PlainError>>
       /\ calls[c].envs[1].code = -32603

\* The request's method is a string made of a non-empty namespace, a "."
\* and a non-empty method name.
WellFormedMethod(request) ==
  /\ request.method.t = "str"
  /\ Len(split(request.method.s)) >= 2
  /\ split(request.method.s)[1] # <<>>
  /\ split(request.method.s)[2] # <<>>

NamespaceOf(request) == split(request.method.s)[1]
MethodNameOf(request) == split(request.method.s)[2]

\* C14: a request whose namespace is not in the registry is answered with
\* an error envelope whose code is -32601 or -32001 and whose id is the
\* request's id.
C14_UnknownNamespace ==
  \A c \in DOMAIN calls :
    (WellFormedMethod(calls[c].req) /\ NamespaceOf(calls[c].req) \notin DOMAIN extensions) =>
      /\ calls[c].st = "returned"
      /\ Len(calls[c].envs) = 1
      /\ calls[c].envs[1].kind = "error"
      /\ calls[c].envs[1].code \in {-32601, -32001}
      /\ calls[c].envs[1].id = calls[c].req.id

\* C14 witness: "nope.foo" with id "1" was answered with -32001 and id "1".
C14_Witness ==
  \E c \in DOMAIN calls :
    /\ calls[c].req.method = MStr(<<"nope", ".", "foo">>)
    /\ calls[c].req.id = IdStr(1)
    /\ calls[c].envs[1].code = -32001
    /\ calls[c].envs[1].id = IdStr(1)

\* C15: a request whose namespace is registered but whose method name is
\* not one of the keys of that extension's `methods` is answered with code
\* -32601 and no handler is invoked.
C15_UnknownMethod ==
  \A c \in DOMAIN calls :
    (/\ WellFormedMethod(calls[c].req)
     /\ NamespaceOf(calls[c].req) \in DOMAIN extensions
     /\ MethodNameOf(calls[c].req) \notin extensions[NamespaceOf(calls[c].req)].methods) =>
      /\ calls[c].invoked = 0
      /\ calls[c].st = "returned"
      /\ calls[c].envs[1].kind = "error"
      /\ calls[c].envs[1].code = -32601

\* C16: a request whose method is missing, is not a string, is empty, or
\* has no "." between a non-empty namespace and a non-empty method name is
\* answered with code -32600.
C16_MalformedMethod ==
  \A c \in DOMAIN calls :
    (calls[c].req.json = "object" /\ ~WellFormedMethod(calls[c].req)) =>
      /\ calls[c].st = "returned"
      /\ calls[c].envs[1].kind = "error"
      /\ calls[c].envs[1].code = -32600

\* C17: a request whose `jsonrpc` member is not the string "2.0" is answered
\* with code -32600 and no handler is invoked.
C17_VersionChecked ==
  \A c \in DOMAIN calls :
    (calls[c].req.json = "object" /\ calls[c].req.jsonrpc # "2.0") =>
      /\ calls[c].invoked = 0
      /\ calls[c].st = "returned"
      /\ calls[c].envs[1].kind = "error"
      /\ calls[c].envs[1].code = -32600

\* C18: a request to network.validatePort whose params lack `port`, or carry
\* it with a type that is not number, is answered with code -32602 and the
\* handler is not invoked.
C18_ParamsChecked ==
  \A c \in DOMAIN calls :
    (/\ calls[c].req.method = MStr(<<"network", ".", "validatePort">>)
     /\ calls[c].req.params.port.t # "num") =>
      /\ calls[c].invoked = 0
      /\ calls[c].st = "returned"
      /\ calls[c].envs[1].kind = "error"
      /\ calls[c].envs[1].code = -32602

\* The registry after a step equals the registry before it plus one entry.
AddsExactly(extension) ==
  /\ DOMAIN extensions' = DOMAIN extensions \cup {extension.name}
  /\ extensions'[extension.name] = extension
  /\ \A n \in DOMAIN extensions : extensions'[n] = extensions[n]

\* The request is a call of the RPC method `register` that names an extension.
IsRegisterRequest(request) ==
  /\ request.method = MStr(<<"extensions", ".", "register">>)
  /\ request.params.extension # <<>>

LoadableTwice ==
  {n \in DirNames :
     /\ \E i \in DOMAIN loader.base : loader.base[i] = [name |-> n, kind |-> "ok"]
     /\ \E j \in DOMAIN loader.user : loader.user[j] = [name |-> n, kind |-> "ok"]}

\* C20: when bulk loading at startup meets two extensions of the same name,
\* it completes with exactly one registry entry for that name, the entry
\* holds the extension loaded later, and a warning was logged for the name.
C20_BulkLoadKeepsLater ==
  loader.pc = "done" =>
    \A n \in LoadableTwice :
      /\ n \in DOMAIN extensions
      /\ extensions[n].origin = "user"
      /\ \E k \in DOMAIN log : log[k].level = "warning" /\ log[k].about = n

\* C21: the first initialize() returns, without raising, one result that
\* reports each transport by itself: false for a transport whose port was
\* in use, true for one that is listening, whatever the other did; with
\* both ports free it is {tcp: true, udp: true}.
C21_PartialBind ==
  [][(~initialized /\ initialized') =>
        LET r == initResults'[Len(initResults')]
        IN /\ Len(initResults') = Len(initResults) + 1
           /\ tcpServer' \in {"listening", "failed"}
           /\ udpServer' \in {"listening", "failed"}
           /\ r.tcp = (tcpServer' = "listening")
           /\ r.udp = (udpServer' = "listening")]_vars

\* C21 witness: the TCP port was in use and the UDP socket is listening;
\* initialize() returned {tcp: false, udp: true}.
C21_Witness ==
  /\ Len(initResults) >= 1
  /\ initResults[1] = [tcp |-> FALSE, udp |-> TRUE]
  /\ tcpServer = "failed" /\ udpServer = "listening"

\* C22: from the shutdown signal on the TCP listener accepts no new
\* connection, and once the grace period has run out no connection stays
\* open.
C22_ShutdownStopsAccepting ==
  /\ [][isShuttingDown => openConns' <= openConns]_vars
  /\ []((shutdown.pc = "fired" /\ exitCode = "running") => openConns = 0)

\* C23: once the connection is closed, no frame still held for it is handed
\* to handleRequest and nothing is written to the socket, even if a dispatch
\* was in flight when it closed.
C23_ClosedConnectionDiscarded ==
  /\ [][destroyed => Len(calls') = Len(calls)]_vars
  /\ [][destroyed => tcpOut' = tcpOut]_vars

\* A timeout was answered on the connection.
TimedOutAnswered ==
  \E k \in DOMAIN tcpOut : tcpOut[k].frame # 0 /\ tcpOut[k].env.code = 408

C24_DatagramSocketUsable ==
  /\ [][\A c \in DOMAIN calls :
          (calls[c].terminal = "none" /\ calls'[c].terminal = "TIMED_OUT") =>
            udpServer' = udpServer]_vars
  /\ [](\A m \in DOMAIN udpMsgs :
          (udpMsgs[m].pc = "await" /\ calls[udpMsgs[m].call].timer = "fired") =>
            calls[udpMsgs[m].call].st = "returned")
  /\ [](\A m \in DOMAIN udpMsgs :
          udpMsgs[m].pc = "done" => \E k \in DOMAIN udpOut : udpOut[k].msg = m)

\* C25: whenever the 'data' handler has yielded control (it returned or it
\* awaits a dispatch), the receive buffer holds at most 1 MiB, for every
\* sequence and interleaving of chunks.
C25_BufferBounded ==
  ByteLength(buffer) <= 1048576

\* C25 witness: after an overflow was answered the buffer was filled again
\* up to exactly 1 MiB.
C25_Witness ==
  /\ OverflowAnswered
  /\ ByteLength(buffer) = 1048576
  /\ ByteLength(stream) > 2 * 1048576

\* The names in a sequence, each kept at its first occurrence only.
RECURSIVE FirstOccurrences(_)
FirstOccurrences(names) ==
  IF names = <<>> THEN <<>>
  ELSE LET front == FirstOccurrences(SubSeq(names, 1, Len(names) - 1))
           last == names[Len(names)]
       IN IF \E i \in DOMAIN front : front[i] = last THEN front ELSE Append(front, last)

\* The keys registered so far, in the order of their registration: what
\* the bulk load reported as loaded, then the registrations that did not throw.
RegisteredKeys ==
  LET loaded == SelectSeq(log, LAMBDA e : e.level = "info")
      added == SelectSeq(registerCalls, LAMBDA r : ~r.threw)
  IN FirstOccurrences([i \in DOMAIN loaded |-> loaded[i].about])
       \o [i \in DOMAIN added |-> added[i].extension.name]

\* The names of the extensions registered so far, in that order.
RegistrationOrder ==
  [i \in DOMAIN RegisteredKeys |-> extensions[RegisteredKeys[i]].name]

\* C26: a call of extensions.list returns one entry per registered
\* extension, in registration order, and `total` is the number of entries,
\* after any bulk load and any successful or failed register calls.
C26_ListInRegistrationOrder ==
  [][Len(listed') > Len(listed) =>
       LET r == listed'[Len(listed')]
       IN /\ [i \in DOMAIN r.extensions |-> r.extensions[i].name] = RegistrationOrder
          /\ r.total = Len(r.extensions)
          /\ r.total = Cardinality(DOMAIN extensions)]_vars

\* C26 witness: the bulk load met one name twice, a registration failed,
\* another succeeded, and list then returned three entries.
C26_Witness ==
  /\ LoadableTwice # {}
  /\ \E c \in DOMAIN registerCalls : registerCalls[c].threw
  /\ \E k \in DOMAIN listed :
       /\ listed[k].total = 3
       /\ listed[k].extensions[3].name = <<"extra">>

\* Everything after the first "." of a method string.
RECURSIVE AfterFirstDot(_)
AfterFirstDot(s) ==
  IF s = <<>> THEN <<>>
  ELSE IF Head(s) = "." THEN Tail(s)
  ELSE AfterFirstDot(Tail(s))

\* C27: resolution splits the method string on its first "." only: for a
\* method string with more than one dot the method name looked up is
\* everything after the first dot, so when the registered namespace has no
\* method of that name no handler is invoked and the answer is an error.
C27_SplitOnFirstDot ==
  \A c \in DOMAIN calls :
    (/\ calls[c].req.json = "object"
     /\ calls[c].req.method.t = "str"
     /\ Len(split(calls[c].req.method.s)) > 2
     /\ NamespaceOf(calls[c].req) \in DOMAIN extensions
     /\ AfterFirstDot(calls[c].req.method.s)
          \notin extensions[NamespaceOf(calls[c].req)].methods \cup ObjectPrototypeKeys) =>
      /\ calls[c].invoked = 0
      /\ calls[c].st = "returned"
      /\ calls[c].envs[1].kind = "error"

\* C28: a handler is invoked at most once per request, and only after the
\* method string passed validation and both the namespace and the method
\* were resolved in the registry; a request that fails validation or
\* resolution invokes no handler, and a returned request is in one
\* terminal state.
C28_HandlerOnlyAfterResolution ==
  \A c \in DOMAIN calls :
    /\ calls[c].invoked <= 1
    /\ calls[c].invoked = 1 =>
         /\ WellFormedMethod(calls[c].req)
         /\ NamespaceOf(calls[c].req) \in DOMAIN extensions
         /\ MethodNameOf(calls[c].req) \in extensions[NamespaceOf(calls[c].req)].methods
    /\ calls[c].st = "returned" => calls[c].terminal \in {"COMPLETED", "FAILED", "TIMED_OUT"}

\* The byte string made of the given frames, each followed by its newline.
RECURSIVE Joined(_)
Joined(frames) ==
  IF frames = <<>> THEN <<>> ELSE Head(frames) \o <<"NL">> \o Joined(Tail(frames))

\* A frame that parses to a request object.
IsRequestFrame(frame) == JSONParse(frame).ok /\ JSONParse(frame).value.json # "null"

\* C29: while the chunks of a connection stay under the buffer limit, the
\* frames sliced are exactly the newline-delimited slices of the stream:
\* the slices followed by the buffered rest are the stream, no slice holds
\* a newline, a complete frame waits in the buffer only while an earlier
\* frame's handler executes, and the requests dispatched are the slices
\* that parse to a request, once each and in order.
C29_FramesAreSlices ==
  ~OverflowAnswered =>
    /\ Joined(sliced) \o buffer = stream
    /\ \A f \in DOMAIN sliced : NumNL(sliced[f]) = 0
    /\ NumNL(buffer) > 0 => \E i \in DOMAIN invs : invs[i].pc = "await"
    /\ LET requests == SelectSeq(sliced, IsRequestFrame)
       IN [c \in DOMAIN calls |-> calls[c].req]
            = [k \in DOMAIN requests |-> JSONParse(requests[k]).value]

\* C29 witness: a frame, then half of a second frame, then its newline
\* arrived in three chunks while the first frame's handler was executing;
\* both frames were dispatched and nothing is left in the buffer.
C29_Witness ==
  /\ ~OverflowAnswered
  /\ stream = <<"ping", "NL", "ping", "NL">>
  /\ Len(invs) = 3
  /\ invs[1].pc = "await" /\ invs[1].frame = 1
  /\ invs[2].pc = "done"
  /\ invs[3].pc = "await" /\ invs[3].frame = 2
  /\ sliced = <<<<"ping">>, <<"ping">>>>
  /\ Len(calls) = 2
  /\ buffer = <<>>

\* C30: every error object handleRequest places in a response carries a
\* requestId equal to the id of the request that caused it (null when the
\* request has no id), on every error path.
C30_ErrorCarriesRequestId ==
  \A c \in DOMAIN calls :
    \A e \in DOMAIN calls[c].envs :
      calls[c].envs[e].kind = "error" =>
        calls[c].envs[e].requestId = Coalesce(calls[c].req.id)

\* C31: every response envelope handleRequest returns for a listener to
\* write carries an id that is a string, a number or null: null when the
\* request has no id, never an absent or undefined id.
C31_EnvelopeIdNeverUndefined ==
  \A c \in DOMAIN calls :
    \A e \in DOMAIN calls[c].envs :
      /\ calls[c].envs[e].id # Undef
      /\ calls[c].envs[e].id = Coalesce(calls[c].req.id)

\* C32: an error envelope with code -32700 is written only for a frame
\* whose bytes are not valid JSON: a frame that parses as JSON, whatever its
\* shape, is never answered with -32700.
C32_ParseErrorOnlyForInvalidJson ==
  \A k \in DOMAIN tcpOut :
    (/\ tcpOut[k].env.kind = "error"
     /\ tcpOut[k].env.code = -32700
     /\ tcpOut[k].frame \in DOMAIN sliced) =>
      ~JSONParse(sliced[tcpOut[k].frame]).ok

\* C33: when the handler completes or fails before the deadline, its
\* envelope is the only response for the request: the settlement returns
\* the call, and the deadline timer that fires later changes nothing but
\* its own state: no Timeout envelope, nothing written, no other call, no
\* buffer, socket or registry touched.
C33_LateTimerHarmless ==
  /\ [][\A c \in DOMAIN calls :
          /\ (calls[c].st = "executing" /\ calls[c].timer = "armed"
                /\ calls'[c].handler \in {"resolved", "rejected"})
               => (calls'[c].st = "returned" /\ calls'[c].terminal \in {"COMPLETED", "FAILED"}
                   /\ Len(calls'[c].envs) = 1)
          /\ (calls[c].terminal \in {"COMPLETED", "FAILED"} /\ calls[c].timer = "armed"
                /\ calls'[c].timer = "fired")
               => /\ calls' = [calls EXCEPT ![c].timer = "fired"]
                  /\ tcpOut' = tcpOut /\ udpOut' = udpOut
                  /\ buffer' = buffer /\ destroyed' = destroyed /\ invs' = invs
                  /\ udpMsgs' = udpMsgs /\ extensions' = extensions]_vars
  /\ [](\A c \in DOMAIN calls :
          calls[c].terminal \in {"COMPLETED", "FAILED"} =>
            /\ Len(calls[c].envs) = 1
            /\ calls[c].envs[1].code # 408
            /\ \A k \in DOMAIN tcpOut, i \in DOMAIN invs :
                 (invs[i].call = c /\ tcpOut[k].frame = invs[i].frame) =>
                   tcpOut[k].env = calls[c].envs[1])

\* C33 witness: the first frame's handler completed, its timer fired
\* afterwards, and a second frame of the connection was answered with its
\* result; no Timeout envelope was written.
C33_Witness ==
  /\ Len(calls) = 2
  /\ calls[1].terminal = "COMPLETED" /\ calls[1].timer = "fired"
  /\ calls[2].terminal = "COMPLETED"
  /\ Len(tcpOut) = 2
  /\ \A k \in DOMAIN tcpOut : tcpOut[k].env.kind = "result"

\* C34: initialize() is idempotent: a second call made after the first
\* returned, with no shutdown in between, starts no new listener and
\* returns the {tcp, udp} status the first call returned, also when a
\* listener failed to bind during the first call.
C34_InitializeIdempotent ==
  [][(initialized /\ shutdown = ShutdownIdle /\ ~isShuttingDown
        /\ Len(initResults') = Len(initResults) + 1) =>
       /\ tcpServer' = tcpServer
       /\ udpServer' = udpServer
       /\ initResults'[Len(initResults')] = initResults[Len(initResults)]]_vars

\* C35: after the bulk load and any sequence of register calls every
\* registry entry is keyed by the name of the extension it holds, so no two
\* entries hold extensions of the same name.
C35_KeyedByName ==
  /\ \A k \in DOMAIN extensions : extensions[k].name = k
  /\ \A j, k \in DOMAIN extensions : extensions[j].name = extensions[k].name => j = k

\* The names extensions.list reports for a registry.
ListedNames(order, exts) ==
  {list(order, exts).extensions[i].name : i \in 1..list(order, exts).total}

\* handleRequest finds a handler for every method of the extension.
ResolvesAll(extension, exts) ==
  \A m \in extension.methods :
    ResolveMethod(Req("2.0", MStr(extension.name \o <<".">> \o m), IdNum(1)), exts).tag
      = "handler"

\* C36: the extensions manager and handleRequest observe one registry:
\* after a successful register of E, through the RPC method or through
\* registerExtension, a request for a method of E is resolved and E is in
\* extensions.list; after a failed register neither changes; and a request
\* for "extra.run" is resolved exactly when "extra" was registered.
C36_SharedRegistry ==
  /\ [][(Len(calls') > Len(calls) /\ IsRegisterRequest(calls'[Len(calls')].req)) =>
          LET call == calls'[Len(calls')]
              extension == call.req.params.extension[1]
          IN IF call.promise = "fulfilled"
             THEN /\ ResolvesAll(extension, extensions')
                  /\ extension.name \in ListedNames(extOrder', extensions')
             ELSE /\ extensions' = extensions
                  /\ list(extOrder', extensions') = list(extOrder, extensions)]_vars
  /\ [][Len(registerCalls') > Len(registerCalls) =>
          LET last == registerCalls'[Len(registerCalls')]
          IN IF ~last.threw
             THEN /\ ResolvesAll(last.extension, extensions')
                  /\ last.extension.name \in ListedNames(extOrder', extensions')
             ELSE /\ extensions' = extensions
                  /\ list(extOrder', extensions') = list(extOrder, extensions)]_vars
  /\ [][(Len(calls') > Len(calls)
           /\ calls'[Len(calls')].req.method = MStr(<<"extra", ".", "run">>)) =>
          LET call == calls'[Len(calls')]
              registered ==
                \/ \E k \in DOMAIN registerCalls :
                     registerCalls[k].extension.name = <<"extra">> /\ ~registerCalls[k].threw
                \/ \E c \in DOMAIN calls :
                     /\ IsRegisterRequest(calls[c].req)
                     /\ calls[c].req.params.extension[1].name = <<"extra">>
                     /\ calls[c].promise = "fulfilled"
          IN IF registered
             THEN \A e \in DOMAIN call.envs : call.envs[e].code \notin {-32001, -32601}
             ELSE call.invoked = 0 /\ call.envs[1].code = -32001]_vars

\* C36 witness: registerExtension added "extra", the RPC method then
\* refused a second "extra", a later request for "extra.run" was answered
\* with its handler's result, and list reports "extra".
C36_Witness ==
  /\ Len(calls) = 2
  /\ \E k \in DOMAIN registerCalls :
       registerCalls[k].extension.name = <<"extra">> /\ ~registerCalls[k].threw
  /\ IsRegisterRequest(calls[1].req)
  /\ calls[1].req.params.extension[1].name = <<"extra">>
  /\ calls[1].promise = "rejected"
  /\ calls[2].req.method = MStr(<<"extra", ".", "run">>)
  /\ calls[2].terminal = "COMPLETED"
  /\ <<"extra">> \in ListedNames(extOrder, extensions)

\* C37: in the client every response settles exactly the pending request
\* that caused it: two requests pending at the same time have distinct
\* ids, each pending call owns the pending entry under its id, and a call
\* is resolved only by the response to its own request.
C37_ResponseSettlesItsRequest ==
  /\ \A j, k \in DOMAIN client.sends :
       (j # k /\ client.sends[j].st = "pending" /\ client.sends[k].st = "pending") =>
         client.sends[j].id # client.sends[k].id
  /\ \A k \in DOMAIN client.sends :
       client.sends[k].st = "resolved" => client.sends[k].by = k
  /\ \A k \in DOMAIN client.sends :
       (client.sends[k].st = "pending" /\ client.sends[k].timer = "armed") =>
         /\ client.sends[k].id \in DOMAIN client.pendingRequests
         /\ client.pendingRequests[client.sends[k].id] = k

\* C38: client reconnection is bounded: since the last successful
\* connection at most maxReconnectAttempts reconnect attempts were started,
\* also when a failed socket raised both 'error' and 'close', and no
\* reconnect attempt opens a socket while close() is in progress.
C38_ReconnectBounded ==
  /\ conn.started <= maxReconnectAttempts
  /\ conn.lateInits = 0

====
